---- MODULE Spec2Model ----
(***************************************************************************)
(* Model of pytube.extract.apply_signature (the manifest patcher) and of   *)
(* pytube.helpers.DeferredGeneratorList.                                   *)
(*                                                                         *)
(* A url is a record of the parts urlparse splits it into; its query is   *)
(* the sequence of <<key, value>> pairs between the "?" and the "#", in    *)
(* their raw (percent-encoded) form.  A manifest entry is a Python dict:   *)
(* a function whose DOMAIN is the set of keys the entry carries.           *)
(***************************************************************************)
EXTENDS Integers, Sequences, FiniteSets, TLC

VARIABLES
    stream_manifest,  \* the manifest being patched in place
    vid_info,         \* TRUE iff playabilityStatus.liveStreamability is truthy
    js,               \* the player script handed to Cipher(js=js)
    pc,               \* "idle", "loop", "returned", "raised"
    i,                \* loop index of apply_signature (1-based)
    url,              \* local variable url: <<>> while unbound, <<u>> once bound
    cipher,           \* local variable cipher: id of the instance, 0 = none
    constructed,      \* how many times Cipher(...) has been called
    calls,            \* log of cipher method calls [at, fn, arg, by]
    error,            \* exception that left apply_signature ("" = none)
    manifest0,        \* the manifest as it was when apply_signature was called
    items,            \* the values the wrapped generator yields, in order
    gen,              \* number of values the generator has yielded so far
    elements,         \* DeferredGeneratorList._elements
    iters,            \* live __iter__ generators: their iter_index, or "done"
    attr_iter_index,  \* instance attribute iter_index: <<>> while never set
    last              \* outcome of the last DeferredGeneratorList operation

patcherVars == <<stream_manifest, vid_info, js, pc, i, url, cipher,
                 constructed, calls, error, manifest0>>
listVars == <<items, gen, elements, iters, attr_iter_index, last>>
vars == <<patcherVars, listVars>>

(***************************************************************************)
(* Bounds and inputs                                                       *)
(***************************************************************************)
MaxEntries == 2

Q(k, v) == <<k, v>>

U(netloc, query, fragment) ==
    [scheme |-> "https", netloc |-> netloc, path |-> "/videoplayback",
     query |-> query, fragment |-> fragment]

\* urls a manifest entry may carry
Urls ==
    { U("h1", <<Q("x", "v"), Q("n", "v")>>, ""),
      U("h2", <<Q("x", "v"), Q("n", "w")>>, "t"),
      U("h1", <<Q("x", "v")>>, ""),
      U("h1", <<Q("ratebypass", "yes"), Q("n", "v")>>, ""),
      U("h2", <<Q("ratebypass", "yes")>>, ""),
      U("h1", <<Q("ratebypass", ""), Q("n", "v")>>, ""),
      U("h1", <<Q("x", ""), Q("n", "v")>>, ""),
      U("h1", <<Q("n", ""), Q("x", "v")>>, ""),
      U("h1", <<Q("x", "v"), Q("signature", "v")>>, ""),
      U("h2", <<Q("x", "v"), Q("sig", "w")>>, ""),
      U("h1", <<Q("sig", "w"), Q("n", "v")>>, ""),
      U("h1", <<Q("x", "v"), Q("lsig", "w"), Q("n", "v")>>, ""),
      U("h2", <<Q("x", "a%20b"), Q("n", "w")>>, ""),
      U("h1", <<Q("ratebypass", "yes"), Q("n", "")>>, ""),
      U("h1", <<Q("x", "v"), Q("x", "w"), Q("n", "v")>>, "") }

\* manifest entries: with and without "url", "s" and "itag"
Entries ==
    { [url |-> u, s |-> "s1", itag |-> 18] : u \in Urls }
    \cup { [url |-> u, itag |-> 18] : u \in Urls }
    \cup { [url |-> U("h1", <<Q("x", "v"), Q("n", "v")>>, ""), s |-> "s 2", itag |-> 22],
           [url |-> U("h1", <<Q("x", "v"), Q("n", "v")>>, ""), s |-> "s1"],
           [s |-> "s1", itag |-> 18],
           [s |-> "s 2", itag |-> 22],
           [itag |-> 18] }

Manifests == UNION { [1..n -> Entries] : n \in 0..MaxEntries }

(***************************************************************************)
(* urllib.parse                                                            *)
(***************************************************************************)
\* unquote_plus as parse_qsl applies it to a name or a value
unquote(v) ==
    CASE v = "a%20b" -> "a b"
      [] v = "a+b" -> "a b"
      [] v = "2+s" -> "2 s"
      [] OTHER -> v

\* quote_plus as urlencode applies it to a name or a value
quote_plus(v) ==
    CASE v = "a b" -> "a+b"
      [] v = "2 s" -> "2+s"
      [] OTHER -> v

\* parse_qsl with keep_blank_values=False: pairs with an empty value are dropped
RECURSIVE parse_qsl(_)
parse_qsl(query) ==
    IF query = <<>> THEN <<>>
    ELSE LET rest == parse_qsl(Tail(query))
             p == Head(query)
         IN IF p[2] = "" THEN rest
            ELSE <<Q(unquote(p[1]), unquote(p[2]))>> \o rest

Keys(d) == { d[j][1] : j \in 1..Len(d) }

Get(d, k) == d[CHOOSE j \in 1..Len(d) : d[j][1] = k][2]

\* d[k] = v on an insertion-ordered dict
Put(d, k, v) ==
    IF k \in Keys(d)
    THEN [j \in 1..Len(d) |-> IF d[j][1] = k THEN Q(k, v) ELSE d[j]]
    ELSE Append(d, Q(k, v))

\* parse_qs: name -> list of its values, names in order of first appearance
RECURSIVE Group(_, _)
Group(pairs, d) ==
    IF pairs = <<>> THEN d
    ELSE LET p == Head(pairs)
         IN Group(Tail(pairs),
                  IF p[1] \in Keys(d)
                  THEN Put(d, p[1], Append(Get(d, p[1]), p[2]))
                  ELSE Put(d, p[1], <<p[2]>>))

parse_qs(query) == Group(parse_qsl(query), <<>>)

urlencode(d) == [j \in 1..Len(d) |-> Q(quote_plus(d[j][1]), quote_plus(d[j][2]))]

(***************************************************************************)
(* Cipher                                                                  *)
(***************************************************************************)
\* Cipher(js=js): raises when the script's shape is not recognised
CipherRaises(script) == script = "drifted"

get_signature(ciphered_signature) ==
    CASE ciphered_signature = "s1" -> "1s"
      [] ciphered_signature = "s 2" -> "2 s"
      [] OTHER -> "?"

calculate_n(initial_n) == "N" \o initial_n

(***************************************************************************)
(* apply_signature                                                         *)
(***************************************************************************)
\* "signature" in url
ContainsSignature(u) == \E j \in 1..Len(u.query) : u.query[j][1] = "signature"

\* "&" + name + "=" in url: the name is a query key other than the first one
ContainsAmp(u, name) == \E j \in 2..Len(u.query) : u.query[j][1] = name

\* the test without its first disjunct, "signature" in url
PreSigned_sigOnly(stream, u) ==
    "s" \notin DOMAIN stream /\ (ContainsAmp(u, "sig") \/ ContainsAmp(u, "lsig"))

PreSigned(stream, u) ==
    ContainsSignature(u)
        \/ ("s" \notin DOMAIN stream /\ (ContainsAmp(u, "sig") \/ ContainsAmp(u, "lsig")))

\* the except branch without the raise
ReadUrl_noRaise(stream, local, live_stream) ==
    IF "url" \in DOMAIN stream
    THEN [raise |-> "", url |-> <<stream["url"]>>]
    ELSE [raise |-> "", url |-> local]

\* try: url = stream["url"] / except KeyError: ... raise LiveStreamError
ReadUrl(stream, local, live_stream) ==
    IF "url" \in DOMAIN stream
    THEN [raise |-> "", url |-> <<stream["url"]>>]
    ELSE IF live_stream
         THEN [raise |-> "LiveStreamError", url |-> local]
         ELSE [raise |-> "", url |-> local]

\* v[-1] in place of v[0]
QueryParams_lastValue(u) ==
    LET d == parse_qs(u.query)
    IN [j \in 1..Len(d) |-> Q(d[j][1], d[j][2][Len(d[j][2])])]

\* query_params = {k: v[0] for k, v in parse_qs(urlparse(url).query).items()}
QueryParams(u) ==
    LET d == parse_qs(u.query) IN [j \in 1..Len(d) |-> Q(d[j][1], d[j][2][1])]

\* the f-string: scheme, netloc and path of the parsed url, then the new query
Rebuild(u, query_params) ==
    [scheme |-> u.scheme, netloc |-> u.netloc, path |-> u.path,
     query |-> urlencode(query_params), fragment |-> ""]

\* the ratebypass test dropped: the n-transform is always applied
OptsOut_never(query_params) == FALSE

\* 'ratebypass' in query_params.keys()
OptsOut(query_params) == "ratebypass" \in Keys(query_params)

\* the body of the loop after the pre-signed test, for one entry
\* (line 160 lacks the comma between the format string and stream["itag"];
\* the call is taken as logger.debug(fmt, stream["itag"]), which evaluates
\* stream["itag"] and raises KeyError when the entry has no itag)
Descramble(stream, u, at, by) ==
    IF "s" \notin DOMAIN stream
    THEN [raise |-> "KeyError:s", calls |-> {}, url |-> u]
    ELSE
    LET signature == get_signature(stream["s"])
        c1 == {[at |-> at, fn |-> "get_signature", arg |-> stream["s"], by |-> by]}
        qp == Put(QueryParams(u), "sig", signature)
    IN IF "itag" \notin DOMAIN stream
       THEN [raise |-> "KeyError:itag", calls |-> c1, url |-> u]
       ELSE IF ~OptsOut(qp)
       THEN IF "n" \notin Keys(qp)
            THEN [raise |-> "KeyError:n", calls |-> c1, url |-> u]
            ELSE LET initial_n == Get(qp, "n")
                     c2 == {[at |-> at, fn |-> "calculate_n", arg |-> initial_n, by |-> by]}
                 IN [raise |-> "", calls |-> c1 \cup c2,
                     url |-> Rebuild(u, Put(qp, "n", calculate_n(initial_n)))]
       ELSE [raise |-> "", calls |-> c1, url |-> Rebuild(u, qp)]

\* stream_manifest[i]["url"] = url
StoreUrl(manifest, at, u) ==
    [manifest EXCEPT ![at] =
        [k \in DOMAIN manifest[at] \cup {"url"} |->
            IF k = "url" THEN u ELSE manifest[at][k]]]

Raise(e) ==
    /\ pc' = "raised"
    /\ error' = e

\* cipher = Cipher(js=js)
Construct ==
    /\ pc = "idle"
    /\ constructed' = constructed + 1
    /\ IF CipherRaises(js)
       THEN /\ Raise("CipherError")
            /\ UNCHANGED cipher
       ELSE /\ pc' = "loop"
            /\ cipher' = constructed + 1
            /\ UNCHANGED error
    /\ UNCHANGED <<stream_manifest, vid_info, js, i, url, calls, manifest0>>
    /\ UNCHANGED listVars

\* the loop body with cipher = Cipher(js=js) moved inside the loop
ProcessEntry_recompile ==
    /\ pc = "loop"
    /\ i <= Len(stream_manifest)
    /\ constructed' = constructed + 1
    /\ cipher' = constructed + 1
    /\ LET stream == stream_manifest[i]
           r == ReadUrl(stream, url, vid_info)
       IN IF r.raise # ""
          THEN /\ Raise(r.raise)
               /\ UNCHANGED <<stream_manifest, i, url, calls>>
          ELSE IF r.url = <<>>
          THEN /\ Raise("UnboundLocalError")
               /\ UNCHANGED <<stream_manifest, i, url, calls>>
          ELSE IF PreSigned(stream, r.url[1])
          THEN /\ i' = i + 1
               /\ url' = r.url
               /\ UNCHANGED <<stream_manifest, pc, error, calls>>
          ELSE LET d == Descramble(stream, r.url[1], i, constructed + 1)
               IN /\ calls' = calls \cup d.calls
                  /\ IF d.raise # ""
                     THEN /\ Raise(d.raise)
                          /\ url' = r.url
                          /\ UNCHANGED <<stream_manifest, i>>
                     ELSE /\ stream_manifest' = StoreUrl(stream_manifest, i, d.url)
                          /\ url' = <<d.url>>
                          /\ i' = i + 1
                          /\ UNCHANGED <<pc, error>>
    /\ UNCHANGED <<vid_info, js, manifest0>>
    /\ UNCHANGED listVars

\* one pass through the body of "for i, stream in enumerate(stream_manifest)"
ProcessEntry ==
    /\ pc = "loop"
    /\ i <= Len(stream_manifest)
    /\ LET stream == stream_manifest[i]
           r == ReadUrl(stream, url, vid_info)
       IN IF r.raise # ""
          THEN /\ Raise(r.raise)
               /\ UNCHANGED <<stream_manifest, i, url, calls>>
          ELSE IF r.url = <<>>
          THEN /\ Raise("UnboundLocalError")
               /\ UNCHANGED <<stream_manifest, i, url, calls>>
          ELSE IF PreSigned(stream, r.url[1])
          THEN /\ i' = i + 1
               /\ url' = r.url
               /\ UNCHANGED <<stream_manifest, pc, error, calls>>
          ELSE LET d == Descramble(stream, r.url[1], i, cipher)
               IN /\ calls' = calls \cup d.calls
                  /\ IF d.raise # ""
                     THEN /\ Raise(d.raise)
                          /\ url' = r.url
                          /\ UNCHANGED <<stream_manifest, i>>
                     ELSE /\ stream_manifest' = StoreUrl(stream_manifest, i, d.url)
                          /\ url' = <<d.url>>
                          /\ i' = i + 1
                          /\ UNCHANGED <<pc, error>>
    /\ UNCHANGED <<vid_info, js, cipher, constructed, manifest0>>
    /\ UNCHANGED listVars

\* the loop is exhausted: apply_signature returns None
Return ==
    /\ pc = "loop"
    /\ i > Len(stream_manifest)
    /\ pc' = "returned"
    /\ UNCHANGED <<stream_manifest, vid_info, js, i, url, cipher, constructed,
                   calls, error, manifest0>>
    /\ UNCHANGED listVars

PatcherInit ==
    /\ stream_manifest \in Manifests
    /\ manifest0 = stream_manifest
    /\ vid_info \in BOOLEAN
    /\ js \in {"base.js", "drifted"}
    /\ pc = "idle"
    /\ i = 1
    /\ url = <<>>
    /\ cipher = 0
    /\ constructed = 0
    /\ calls = {}
    /\ error = ""

PatcherIdle ==
    /\ stream_manifest = <<>>
    /\ manifest0 = <<>>
    /\ vid_info = FALSE
    /\ js = "base.js"
    /\ pc = "idle"
    /\ i = 1
    /\ url = <<>>
    /\ cipher = 0
    /\ constructed = 0
    /\ calls = {}
    /\ error = ""

(***************************************************************************)
(* DeferredGeneratorList                                                   *)
(***************************************************************************)
MaxItems == 3
MaxKey == 3
MaxIters == 2

Outcome(op, key, raise, value) ==
    [op |-> op, key |-> key, len0 |-> Len(elements), raise |-> raise, value |-> value]

\* the while loop of __getitem__: draw until len(_elements) reaches stop
RECURSIVE Fill(_, _, _)
Fill(elems, g, stop) ==
    IF Len(elems) < stop
    THEN IF g < Len(items)
         THEN Fill(Append(elems, items[g + 1]), g + 1, stop)
         ELSE [raise |-> "IndexError", elements |-> elems, gen |-> g, value |-> <<>>]
    ELSE [raise |-> "", elements |-> elems, gen |-> g, value |-> <<>>]

\* self._elements[key] for an int key (negative keys count from the end)
Index(elems, key) ==
    LET at == IF key < 0 THEN Len(elems) + key + 1 ELSE key + 1
    IN IF at \in 1..Len(elems)
       THEN [raise |-> "", value |-> <<elems[at]>>]
       ELSE [raise |-> "IndexError", value |-> <<>>]

\* the loop of generate_all: drain the generator into _elements
RECURSIVE generate_all(_, _)
generate_all(elems, g) ==
    IF g < Len(items)
    THEN generate_all(Append(elems, items[g + 1]), g + 1)
    ELSE [elements |-> elems, gen |-> g]

\* __getitem__ that drains the whole generator before indexing
getitem_eager(elems, g, key) ==
    LET f == generate_all(elems, g)
        x == Index(f.elements, key)
    IN [raise |-> x.raise, elements |-> f.elements, gen |-> f.gen, value |-> x.value]

\* __getitem__(key) for an int key: key_slice = slice(key, key + 1, 1)
getitem(elems, g, key) ==
    LET f == Fill(elems, g, key + 1)
    IN IF f.raise # "" THEN f
       ELSE LET x == Index(f.elements, key)
            IN [raise |-> x.raise, elements |-> f.elements, gen |-> f.gen,
                value |-> x.value]

GetItem(key) ==
    /\ LET r == getitem(elements, gen, key)
       IN /\ elements' = r.elements
          /\ gen' = r.gen
          /\ last' = Outcome("getitem", key, r.raise, r.value)
    /\ UNCHANGED <<items, iters, attr_iter_index>>
    /\ UNCHANGED patcherVars

\* iter(self): a new generator object, suspended before its first statement
Iter ==
    /\ Len(iters) < MaxIters
    /\ iters' = Append(iters, [iter_index |-> 0, done |-> FALSE])
    /\ last' = Outcome("iter", 0, "", <<>>)
    /\ UNCHANGED <<items, gen, elements, attr_iter_index>>
    /\ UNCHANGED patcherVars

\* next() on the j-th __iter__ generator: one turn of its while loop
IterNext(j) ==
    /\ j \in 1..Len(iters)
    /\ LET it == iters[j]
           r == getitem(elements, gen, it.iter_index)
       IN IF it.done
          THEN /\ last' = Outcome("iternext", it.iter_index, "StopIteration", <<>>)
               /\ UNCHANGED <<elements, gen, iters>>
          ELSE /\ elements' = r.elements
               /\ gen' = r.gen
               /\ IF r.raise = "IndexError"
                  THEN /\ iters' = [iters EXCEPT ![j].done = TRUE]
                       /\ last' = Outcome("iternext", it.iter_index, "StopIteration", <<>>)
                  ELSE /\ iters' = [iters EXCEPT ![j].iter_index = @ + 1]
                       /\ last' = Outcome("iternext", it.iter_index, "", r.value)
    /\ UNCHANGED <<items, attr_iter_index>>
    /\ UNCHANGED patcherVars

\* __next__: reads self.iter_index, which __init__ never sets
DunderNext ==
    /\ IF attr_iter_index = <<>>
       THEN /\ last' = Outcome("next", 0, "AttributeError", <<>>)
            /\ UNCHANGED <<elements, gen, attr_iter_index>>
       ELSE LET r == getitem(elements, gen, attr_iter_index[1])
            IN /\ elements' = r.elements
               /\ gen' = r.gen
               /\ IF r.raise = "IndexError"
                  THEN /\ last' = Outcome("next", attr_iter_index[1], "StopIteration", <<>>)
                       /\ UNCHANGED attr_iter_index
                  ELSE /\ last' = Outcome("next", attr_iter_index[1], "", r.value)
                       /\ attr_iter_index' = <<attr_iter_index[1] + 1>>
    /\ UNCHANGED <<items, iters>>
    /\ UNCHANGED patcherVars

\* __len__: generate_all(), then len(self._elements)
DunderLen ==
    /\ LET r == generate_all(elements, gen)
       IN /\ elements' = r.elements
          /\ gen' = r.gen
          /\ last' = Outcome("len", 0, "", <<Len(r.elements)>>)
    /\ UNCHANGED <<items, iters, attr_iter_index>>
    /\ UNCHANGED patcherVars

GenerateAll ==
    /\ LET r == generate_all(elements, gen)
       IN /\ elements' = r.elements
          /\ gen' = r.gen
          /\ last' = Outcome("generate_all", 0, "", <<>>)
    /\ UNCHANGED <<items, iters, attr_iter_index>>
    /\ UNCHANGED patcherVars

\* DeferredGeneratorList(generator)
ListInit ==
    /\ items \in UNION { [1..n -> {"a", "b"}] : n \in 0..MaxItems }
    /\ gen = 0
    /\ elements = <<>>
    /\ iters = <<>>
    /\ attr_iter_index = <<>>
    /\ last = [op |-> "init", key |-> 0, len0 |-> 0, raise |-> "", value |-> <<>>]

ListIdle ==
    /\ items = <<>>
    /\ gen = 0
    /\ elements = <<>>
    /\ iters = <<>>
    /\ attr_iter_index = <<>>
    /\ last = [op |-> "init", key |-> 0, len0 |-> 0, raise |-> "", value |-> <<>>]

Init == PatcherInit /\ ListIdle

Next == Construct \/ ProcessEntry \/ Return

Spec == Init /\ [][Next]_vars

InitList == PatcherIdle /\ ListInit

NextList ==
    \/ \E key \in -1..MaxKey : GetItem(key)
    \/ Iter
    \/ \E j \in 1..MaxIters : IterNext(j)
    \/ DunderNext
    \/ DunderLen
    \/ GenerateAll

SpecList == InitList /\ [][NextList]_vars

(***************************************************************************)
(* Properties of apply_signature (checked under Spec)                      *)
(***************************************************************************)
Positions == 1..Len(manifest0)

HasUrl(j) == "url" \in DOMAIN manifest0[j]

\* the raw query keys of a url, decoded, whatever their values
RawKeys(u) == { unquote(u.query[j][1]) : j \in 1..Len(u.query) }

\* the decoded value of the first pair named k in the raw query
RawFirst(u, k) ==
    unquote(u.query[CHOOSE j \in 1..Len(u.query) :
                        /\ unquote(u.query[j][1]) = k
                        /\ \A h \in 1..(j - 1) : unquote(u.query[h][1]) # k][2])

\* the keys that have a non-empty value, and the first non-empty value of one
FilledKeys(u) == { unquote(u.query[j][1]) : j \in { h \in 1..Len(u.query) : u.query[h][2] # "" } }

FilledFirst(u, k) ==
    unquote(u.query[CHOOSE j \in 1..Len(u.query) :
                        /\ unquote(u.query[j][1]) = k /\ u.query[j][2] # ""
                        /\ \A h \in 1..(j - 1) :
                              ~(unquote(u.query[h][1]) = k /\ u.query[h][2] # "")][2])

\* the url carries a final signature parameter, as the claims spell it
FinalSigned(j) ==
    /\ HasUrl(j)
    /\ LET u == manifest0[j].url
       IN \/ \E h \in 1..Len(u.query) : u.query[h][1] = "signature"
          \/ /\ "s" \notin DOMAIN manifest0[j]
             /\ \E h \in 2..Len(u.query) : u.query[h][1] \in {"sig", "lsig"}

\* an entry with a url of its own that needs descrambling
NeedsDescrambling(j) ==
    HasUrl(j) /\ "s" \in DOMAIN manifest0[j] /\ ~FinalSigned(j)

CalledAt(j, fn) == \E c \in calls : c.at = j /\ c.fn = fn

\* C1: when apply_signature raises, every entry's url is what it was before
\* the call (no partially patched manifest).
C1_AllOrNothing == pc = "raised" => stream_manifest = manifest0

\* C2: an entry whose url already carries a final signature parameter is left
\* unchanged at every position, and neither get_signature nor calculate_n is
\* applied to it.
C2_PreSignedUntouched ==
    \A j \in Positions :
        FinalSigned(j) =>
            /\ stream_manifest[j] = manifest0[j]
            /\ ~CalledAt(j, "get_signature")
            /\ ~CalledAt(j, "calculate_n")

C2_Witness ==
    /\ pc = "returned"
    /\ Len(manifest0) >= 2
    /\ FinalSigned(2)
    /\ "s" \in DOMAIN manifest0[2]
    /\ stream_manifest[1] # manifest0[1]

\* an entry with no url, no signature token, under a live-unavailable status
LiveCase(j) ==
    vid_info /\ ~HasUrl(j) /\ "s" \notin DOMAIN manifest0[j]

\* C3: the loop never gets past an entry with no url and no signature token
\* while the video is a live stream: reaching it raises LiveStreamError, and
\* no entry at or after it is descrambled or rewritten.
C3_LiveStreamFailFast ==
    /\ \A j \in Positions : LiveCase(j) => i <= j
    /\ \A j \in Positions :
          (LiveCase(j) /\ i = j /\ pc = "raised" /\ error # "CipherError")
              => error = "LiveStreamError"
    /\ error = "LiveStreamError" =>
          \A j \in i..Len(manifest0) :
              /\ stream_manifest[j] = manifest0[j]
              /\ \A c \in calls : c.at # j

C3_Witness ==
    /\ error = "LiveStreamError"
    /\ i = 2
    /\ LiveCase(2)
    /\ stream_manifest[1] # manifest0[1]

\* C4: the url written to an entry depends only on that entry's own fields
\* and the cipher; an entry with no "url" key is never given a url taken from
\* a previously processed entry.
C4_OwnFieldsOnly ==
    \A j \in Positions :
        /\ ~HasUrl(j) => "url" \notin DOMAIN stream_manifest[j]
        /\ (HasUrl(j) /\ stream_manifest[j] # manifest0[j]) =>
              stream_manifest[j].url =
                  Descramble(manifest0[j], manifest0[j].url, j, cipher).url

\* C5: one call constructs the Cipher exactly once, before any entry is
\* examined, and every get_signature and calculate_n call is made on that
\* one instance, whatever the manifest's length.
C5_OneCipher ==
    /\ pc = "idle" =>
          constructed = 0 /\ i = 1 /\ calls = {} /\ stream_manifest = manifest0
    /\ pc # "idle" => constructed = 1
    /\ pc \in {"loop", "returned"} => cipher = 1
    /\ \A c \in calls : c.by = 1

C5_Witness ==
    /\ pc = "returned"
    /\ Len(manifest0) >= 2
    /\ \A j \in Positions : CalledAt(j, "get_signature") /\ CalledAt(j, "calculate_n")

\* scheme, host and path are kept and sig is the descrambled signature
SigSpliced(j) ==
    LET u0 == manifest0[j].url
        u1 == stream_manifest[j].url
    IN /\ u1.scheme = u0.scheme
       /\ u1.netloc = u0.netloc
       /\ u1.path = u0.path
       /\ "sig" \in RawKeys(u1)
       /\ RawFirst(u1, "sig") = get_signature(manifest0[j].s)

\* C6 as stated: after apply_signature returns, every entry that needed
\* descrambling keeps scheme, host and path, has sig = get_signature(s), and
\* keeps every other original query parameter (but sig and n) with its
\* original first value.
C6_KeepsEveryParameter ==
    pc = "returned" =>
        \A j \in Positions :
            NeedsDescrambling(j) =>
                /\ SigSpliced(j)
                /\ \A k \in RawKeys(manifest0[j].url) \ {"sig", "n"} :
                      /\ k \in RawKeys(stream_manifest[j].url)
                      /\ RawFirst(stream_manifest[j].url, k) = RawFirst(manifest0[j].url, k)

\* C6, amended: ... and keeps every other original query parameter (but sig
\* and n) that has a non-empty value, with its first non-empty value.
C6_KeepsFilledParameters ==
    pc = "returned" =>
        \A j \in Positions :
            NeedsDescrambling(j) =>
                /\ SigSpliced(j)
                /\ \A k \in FilledKeys(manifest0[j].url) \ {"sig", "n"} :
                      /\ k \in RawKeys(stream_manifest[j].url)
                      /\ RawFirst(stream_manifest[j].url, k) = FilledFirst(manifest0[j].url, k)

C6_Witness ==
    /\ pc = "returned"
    /\ Len(manifest0) >= 2
    /\ NeedsDescrambling(1) /\ NeedsDescrambling(2)
    /\ manifest0[1].s = "s 2"
    /\ Len(manifest0[2].url.query) = 3
    /\ RawFirst(manifest0[2].url, "x") # manifest0[2].url.query[2][2]

\* the n parameter of the rewritten url equals that of the original
NCarriedOver(j, keys(_), first(_, _)) ==
    LET u0 == manifest0[j].url
        u1 == stream_manifest[j].url
    IN IF "n" \in keys(u0)
       THEN "n" \in RawKeys(u1) /\ RawFirst(u1, "n") = first(u0, "n")
       ELSE "n" \notin RawKeys(u1)

\* C7 as stated: for every descrambled entry, if the url's query has no
\* ratebypass parameter the rewritten n is calculate_n of the original n;
\* if ratebypass is present calculate_n is not called and n is carried over.
C7_NTransformUnlessBypass ==
    \A j \in Positions :
        (NeedsDescrambling(j) /\ j < i) =>
            LET u0 == manifest0[j].url
                u1 == stream_manifest[j].url
            IN IF "ratebypass" \notin RawKeys(u0)
               THEN /\ "n" \in RawKeys(u0)
                    /\ CalledAt(j, "calculate_n")
                    /\ "n" \in RawKeys(u1)
                    /\ RawFirst(u1, "n") = calculate_n(RawFirst(u0, "n"))
               ELSE /\ ~CalledAt(j, "calculate_n")
                    /\ NCarriedOver(j, RawKeys, RawFirst)

\* C7, amended: "has a ratebypass parameter" and "the n parameter" count
\* only parameters with a non-empty value.
C7_NTransformUnlessFilledBypass ==
    \A j \in Positions :
        (NeedsDescrambling(j) /\ j < i) =>
            LET u0 == manifest0[j].url
                u1 == stream_manifest[j].url
            IN IF "ratebypass" \notin FilledKeys(u0)
               THEN /\ "n" \in FilledKeys(u0)
                    /\ CalledAt(j, "calculate_n")
                    /\ "n" \in RawKeys(u1)
                    /\ RawFirst(u1, "n") = calculate_n(FilledFirst(u0, "n"))
               ELSE /\ ~CalledAt(j, "calculate_n")
                    /\ NCarriedOver(j, FilledKeys, FilledFirst)

C7_Witness ==
    /\ pc = "returned"
    /\ Len(manifest0) >= 2
    /\ NeedsDescrambling(1) /\ NeedsDescrambling(2)
    /\ "ratebypass" \in FilledKeys(manifest0[1].url)
    /\ "n" \in FilledKeys(manifest0[1].url)
    /\ "ratebypass" \notin RawKeys(manifest0[2].url)

\* an entry to descramble whose url has neither an n nor a ratebypass parameter
NoNToken(j) ==
    /\ NeedsDescrambling(j)
    /\ "itag" \in DOMAIN manifest0[j]
    /\ RawKeys(manifest0[j].url) \cap {"n", "ratebypass"} = {}

\* C8: an entry needing descrambling whose url has no n (and no ratebypass)
\* parameter does not make apply_signature raise, and is rewritten with the
\* descrambled sig.
C8_NTokenOptional ==
    \A j \in Positions :
        NoNToken(j) =>
            /\ ~(pc = "raised" /\ error # "CipherError" /\ i = j)
            /\ j < i => SigSpliced(j)

(***************************************************************************)
(* Properties of DeferredGeneratorList (checked under SpecList)            *)
(***************************************************************************)
Min(a, b) == IF a < b THEN a ELSE b

\* C9: _elements is always exactly the values the generator has produced so
\* far, in order; __getitem__(k), k >= 0, draws only while len(_elements) is
\* below k + 1, returns the k-th value when there is one and raises
\* IndexError otherwise.
C9_DeferredPrefix ==
    /\ gen \in 0..Len(items)
    /\ elements = SubSeq(items, 1, gen)
    /\ (last.op = "getitem" /\ last.key >= 0) =>
          /\ gen = IF last.len0 >= last.key + 1 THEN last.len0
                   ELSE Min(last.key + 1, Len(items))
          /\ IF last.key + 1 <= Len(items)
             THEN last.raise = "" /\ last.value = <<items[last.key + 1]>>
             ELSE last.raise = "IndexError"

C9_Witness ==
    /\ last.op = "getitem"
    /\ last.key = 2
    /\ last.len0 = 1
    /\ Len(items) = 3
    /\ gen = 3
    /\ \E j \in 1..Len(iters) : iters[j].iter_index = 1

\* C10: __next__ returns the values in order and then raises StopIteration;
\* it raises no other error at any point.
C10_NextYieldsInOrder ==
    last.op = "next" =>
        \/ last.raise = "" /\ last.key < Len(items)
                           /\ last.value = <<items[last.key + 1]>>
        \/ last.raise = "StopIteration" /\ last.key >= Len(items)

====
